---- MODULE Spec2Model ----
(***************************************************************************)
(* Model of the bookmark command (src/main.go; src/unnamed/part_000 is a   *)
(* second copy of the same program with identical main, add, savePage,     *)
(* list and readBookmarkDB).                                               *)
(*                                                                         *)
(* Strings are sequences of tokens.  A token is a TLA+ string standing for *)
(* that run of bytes; the token set is prefix-free, so a byte string has   *)
(* one tokenisation and byte-wise order is token-wise order by ByteRank.   *)
(* The file system is taken to be reliable: ReadFile fails only with       *)
(* "not exist", and OpenFile/Write/Close of the append succeed.            *)
(***************************************************************************)
EXTENDS Integers, Sequences, FiniteSets, TLC

\* ------------------------------------------------------------------ bounds
NProcs == 2
MaxInvocations == 2

Procs == 1..NProcs

\* ------------------------------------------------------------ byte strings
NL == "\n"
SP == " "
Letters == {"http", "HTTP", "x", "y"}

ByteRank(t) ==
  CASE t = NL -> 10
    [] t = SP -> 32
    [] t = "%20" -> 37
    [] t = "/" -> 47
    [] t = ":" -> 58
    [] t = "HTTP" -> 72
    [] t = "http" -> 104
    [] t = "x" -> 120
    [] t = "y" -> 121

\* strings.ToLower on one token
ToLowerTok(t) == IF t = "HTTP" THEN "http" ELSE t

ToLower(s) == [i \in DOMAIN s |-> ToLowerTok(s[i])]

HasPrefix(s, pre) == Len(s) >= Len(pre) /\ SubSeq(s, 1, Len(pre)) = pre

\* index of the first occurrence of token t in s, 0 when absent
Index(s, t) ==
  IF \E i \in DOMAIN s : s[i] = t
    THEN CHOOSE i \in DOMAIN s : s[i] = t /\ \A j \in 1..(i - 1) : s[j] # t
    ELSE 0

\* index of the last occurrence of token t in s, 0 when absent
LastIndex(s, t) ==
  IF \E i \in DOMAIN s : s[i] = t
    THEN CHOOSE i \in DOMAIN s : s[i] = t /\ \A j \in (i + 1)..Len(s) : s[j] # t
    ELSE 0

\* byte-wise s < t, the order of sort.Strings
RECURSIVE StrLess(_, _)
StrLess(s, t) ==
  IF t = <<>> THEN FALSE
  ELSE IF s = <<>> THEN TRUE
  ELSE IF Head(s) = Head(t) THEN StrLess(Tail(s), Tail(t))
  ELSE ByteRank(Head(s)) < ByteRank(Head(t))

\* ------------------------------------------------ net/url: Parse and String
\* url.Parse followed by URL.String, as add (and http.NewRequest) use them.

\* path unescape / escape: the only escape of the alphabet is %20 <-> space
unescape(s) == [i \in DOMAIN s |-> IF s[i] = "%20" THEN SP ELSE s[i]]

escape(s) == [i \in DOMAIN s |-> IF s[i] = SP THEN "%20" ELSE s[i]]

stringContainsCTLByte(s) == \E i \in DOMAIN s : s[i] = NL

\* getScheme: letters up to the first ':'; a leading ':' is an error
getScheme(s) ==
  LET stops == {i \in DOMAIN s : s[i] \notin Letters}
      i == IF stops = {} THEN 0 ELSE CHOOSE k \in stops : \A j \in stops : k <= j
  IN  IF i = 0 \/ s[i] # ":"
        THEN [err |-> FALSE, scheme |-> <<>>, rest |-> s]
        ELSE IF i = 1
          THEN [err |-> TRUE, scheme |-> <<>>, rest |-> <<>>]
          ELSE [err |-> FALSE, scheme |-> SubSeq(s, 1, i - 1),
                rest |-> SubSeq(s, i + 1, Len(s))]

\* parseHost: no escapes or spaces in a host; a colon must start a valid port
\* (digits only, and the alphabet has none, so it must be the last byte)
parseHostErr(h) ==
  \/ \E i \in DOMAIN h : h[i] \in {SP, "%20"}
  \/ LET c == LastIndex(h, ":") IN c # 0 /\ c # Len(h)

URLErr == [err |-> TRUE, scheme |-> <<>>, opaque |-> <<>>, host |-> <<>>,
           path |-> <<>>, omitHost |-> FALSE]

Parse(rawURL) ==
  IF stringContainsCTLByte(rawURL) THEN URLErr
  ELSE LET gs == getScheme(rawURL) IN
    IF gs.err THEN URLErr
    ELSE LET scheme == ToLower(gs.scheme)
             rest == gs.rest
             slash == Index(rest, "/")
             segment == IF slash = 0 THEN rest ELSE SubSeq(rest, 1, slash - 1)
         IN
      IF ~HasPrefix(rest, <<"/">>) /\ scheme # <<>>
        THEN [err |-> FALSE, scheme |-> scheme, opaque |-> rest, host |-> <<>>,
              path |-> <<>>, omitHost |-> FALSE]
      ELSE IF ~HasPrefix(rest, <<"/">>) /\ Index(segment, ":") # 0
        THEN URLErr
      ELSE IF /\ HasPrefix(rest, <<"/", "/">>)
              /\ (scheme # <<>> \/ ~HasPrefix(rest, <<"/", "/", "/">>))
        THEN LET auth0 == SubSeq(rest, 3, Len(rest))
                 k == Index(auth0, "/")
                 authority == IF k = 0 THEN auth0 ELSE SubSeq(auth0, 1, k - 1)
                 rest2 == IF k = 0 THEN <<>> ELSE SubSeq(auth0, k, Len(auth0))
             IN IF parseHostErr(authority) THEN URLErr
                ELSE [err |-> FALSE, scheme |-> scheme, opaque |-> <<>>,
                      host |-> authority, path |-> unescape(rest2),
                      omitHost |-> FALSE]
      ELSE [err |-> FALSE, scheme |-> scheme, opaque |-> <<>>, host |-> <<>>,
            path |-> unescape(rest),
            omitHost |-> (scheme # <<>> /\ HasPrefix(rest, <<"/">>))]

String(u) ==
  LET sch == IF u.scheme # <<>> THEN u.scheme \o <<":">> ELSE <<>>
      slashes == IF /\ (u.scheme # <<>> \/ u.host # <<>>)
                    /\ ~(u.omitHost /\ u.host = <<>>)
                    /\ (u.host # <<>> \/ u.path # <<>>)
                   THEN <<"/", "/">> ELSE <<>>
  IN  IF u.opaque # <<>> THEN sch \o u.opaque
      ELSE sch \o slashes \o u.host \o escape(u.path)

\* the scheme and host conditions under which client.Do puts a request on
\* the wire; otherwise it returns an error without sending anything
Sendable(urlstr) ==
  LET u == Parse(urlstr) IN ~u.err /\ u.scheme = <<"http">> /\ u.host # <<>>

\* ------------------------------------------------------------ strconv.Atoi
\* Retry-After values are strings over the bytes "-", "0", "5", "7", "a".
DigitVal(c) == CASE c = "0" -> 0 [] c = "5" -> 5 [] c = "7" -> 7

IsDigit(c) == c \in {"0", "5", "7"}

RECURSIVE DecVal(_, _)
DecVal(s, acc) ==
  IF s = <<>> THEN acc ELSE DecVal(Tail(s), acc * 10 + DigitVal(Head(s)))

\* n, _ := strconv.Atoi(h): 0 when h is not an optionally signed decimal
Atoi(h) ==
  LET neg == h # <<>> /\ Head(h) = "-"
      digits == IF neg THEN Tail(h) ELSE h
  IN  IF digits = <<>> \/ \E i \in DOMAIN digits : ~IsDigit(digits[i])
        THEN 0
        ELSE IF neg THEN 0 - DecVal(digits, 0) ELSE DecVal(digits, 0)

\* ---------------------------------------------------------- Bookmark store
\* the backing file: absent, or a byte string
NoFile == [exists |-> FALSE, data |-> <<>>]

File(d) == [exists |-> TRUE, data |-> d]

\* bytes.SplitAfter(data, "\n"): pieces ending in "\n", then the remainder
RECURSIVE SplitAfter(_)
SplitAfter(data) ==
  LET k == Index(data, NL) IN
    IF k = 0 THEN <<data>>
    ELSE <<SubSeq(data, 1, k)>> \o SplitAfter(SubSeq(data, k + 1, Len(data)))

TrimSuffix(line) ==
  IF line # <<>> /\ line[Len(line)] = NL
    THEN SubSeq(line, 1, Len(line) - 1) ELSE line

\* the load keeping only the lines that end in a newline
readBookmarkDBTerminatedOnly(f) ==
  IF ~f.exists THEN {}
  ELSE LET lines == SplitAfter(f.data) IN
    {TrimSuffix(lines[i]) :
       i \in {j \in DOMAIN lines : Len(TrimSuffix(lines[j])) # 0
                                    /\ TrimSuffix(lines[j]) # lines[j]}}

\* readBookmarkDB: the keys of b.bookmarks
readBookmarkDB(f) ==
  IF ~f.exists THEN {}
  ELSE LET lines == SplitAfter(f.data) IN
    {TrimSuffix(lines[i]) : i \in {j \in DOMAIN lines : Len(TrimSuffix(lines[j])) # 0}}

\* sort.Strings over a set of strings
RECURSIVE SortStrings(_)
SortStrings(S) ==
  IF S = {} THEN <<>>
  ELSE LET m == CHOOSE x \in S : \A y \in S \ {x} : StrLess(x, y)
       IN <<m>> \o SortStrings(S \ {m})

\* list printing the keys from the largest down
listDescending(bookmarks) ==
  LET s == SortStrings(bookmarks) IN [i \in 1..Len(s) |-> s[Len(s) + 1 - i]]

\* list: the lines printed, in order
list(bookmarks) == SortStrings(bookmarks)

\* the write without the line terminator
AppendLineNoNewline(f, urlstr) == File(f.data \o urlstr)

\* the write on a file opened for truncation instead of append
AppendLineTruncate(f, urlstr) == File(urlstr \o <<NL>>)

\* f.Write([]byte(urlstr + "\n")) on a file opened O_CREATE|O_APPEND
AppendLine(f, urlstr) == File(f.data \o urlstr \o <<NL>>)

\* ------------------------------------------------------------- environment
\* raw command-line arguments
Args == { <<>>,
          <<"http", ":", "/", "/", "x">>,
          <<"HTTP", ":", "/", "/", "x">>,
          <<"http", ":", "/", "/", "y", "/", SP>>,
          <<"http", ":", "/", "/">>,
          <<"x">>,
          <<":", "x">>,
          <<"x", NL>> }

\* positional argument lists: none, one, or two
ArgLists == {<<>>} \cup {<<a>> : a \in Args}
              \cup {<< <<"x">>, a >> : a \in {<<"x">>, <<"http", ":", "/", "/", "x">>}}

\* contents the backing file may have when the first invocation starts
InitFiles == { NoFile, File(<<>>),
               File(<<"http", ":", "/", "/", "x", NL>>),
               File(<<NL, "y", NL, NL, "y", NL, "x">>) }

RetryAfterVals == { <<>>, <<"a">>, <<"0">>, <<"-", "5">>, <<"7">> }

LocationVals == { <<>>, <<":", "x">>, <<"HTTP", ":", "/", "/", "y">> }

Resp(e, st, ra, loc) == [err |-> e, status |-> st, retryAfter |-> ra, location |-> loc]

\* what one client.Do / ReadAll can produce for a request that is sent
Responses ==
  {Resp("net", 0, <<>>, <<>>), Resp("body", 200, <<>>, <<>>)}
    \cup {Resp("none", st, <<>>, <<>>) : st \in {200, 403, 404, 500, 502}}
    \cup {Resp("none", st, ra, <<>>) : st \in {429, 503}, ra \in RetryAfterVals}
    \cup {Resp("none", 300, <<>>, loc) : loc \in LocationVals}

\* ------------------------------------------------------------------ state
VARIABLES
  file,        \* the backing file $HOME/.bookmark
  pc,          \* per process: "idle", "fetch" (head of the savePage loop),
               \* "append" (savePage returned nil), "done" (exited)
  flagList,    \* *flagList
  flagBad,     \* the command line carried an undefined flag
  args,        \* flag.Args()
  bookmarks,   \* keys of db.bookmarks, loaded at startup
  urlstr,      \* add's urlstr after normalisation
  target,      \* savePage's own urlstr
  retry,       \* savePage's retry
  hist,        \* responses received by this invocation, in order
  gets,        \* GET requests this invocation put on the wire
  exitCode,    \* exit status, -1 while running
  msg,         \* what was written to standard error on exit
  out,         \* lines written to standard output
  before,      \* the backing file as it was when this invocation started
  file0,       \* the backing file before the first invocation
  requested,   \* normalised URLs handed to add so far
  fetchFailed, \* some savePage so far did not return nil
  started,     \* invocations started so far
  now,         \* the wall clock, in seconds of Unix time
  sentAt       \* per process: the clock at each GET put on the wire

vars == <<file, pc, flagList, flagBad, args, bookmarks, urlstr, target, retry, hist,
          gets, exitCode, msg, out, before, file0, requested, fetchFailed,
          started, now, sentAt>>

\* the state before the first invocation, the clock reading t
InitAt(t) ==
  /\ file \in InitFiles
  /\ file0 = file
  /\ pc = [p \in Procs |-> "idle"]
  /\ flagList = [p \in Procs |-> FALSE]
  /\ flagBad = [p \in Procs |-> FALSE]
  /\ args = [p \in Procs |-> <<>>]
  /\ bookmarks = [p \in Procs |-> {}]
  /\ urlstr = [p \in Procs |-> <<>>]
  /\ target = [p \in Procs |-> <<>>]
  /\ retry = [p \in Procs |-> 0]
  /\ hist = [p \in Procs |-> <<>>]
  /\ gets = [p \in Procs |-> 0]
  /\ exitCode = [p \in Procs |-> -1]
  /\ msg = [p \in Procs |-> ""]
  /\ out = [p \in Procs |-> <<>>]
  /\ before = [p \in Procs |-> file]
  /\ requested = {}
  /\ fetchFailed = FALSE
  /\ started = 0
  /\ now = t
  /\ sentAt = [p \in Procs |-> <<>>]

Init == InitAt(0)

\* ---------------------------------------------------------------- savePage
maxRetry == 3

\* the loop condition admitting one more iteration
LoopCondInclusive(r) == r <= maxRetry

\* for retry < maxRetry
LoopCond(r) == r < maxRetry

\* the not-found test comparing with the wrong status
IsNotFound400(st) == st >= 400 /\ st = 400

\* resp.StatusCode >= 400 && resp.StatusCode == 404
IsNotFound(st) == st >= 400 /\ st = 404

\* the 429/503 branch with a Retry-After that Atoi turns into n > 0
IsBackoff(r) ==
  /\ r.status >= 400
  /\ r.status = 429 \/ r.status = 503
  /\ Atoi(r.retryAfter) > 0

\* time.Duration is a signed integer that wraps on addition; the model
\* counts whole seconds in DurationBits bits where the code counts
\* nanoseconds in 64
DurationBits == 8
MaxDuration == 2 ^ (DurationBits - 1) - 1
MinDuration == -(2 ^ (DurationBits - 1))

\* 1*time.Minute
Minute == 60

\* t.Sub(u): the difference, saturated at the largest or smallest Duration
Sub(t, u) ==
  IF t - u > MaxDuration THEN MaxDuration
  ELSE IF t - u < MinDuration THEN MinDuration
  ELSE t - u

\* d + e on Durations: two's complement addition
AddDuration(d, e) == ((d + e - MinDuration) % 2 ^ DurationBits) + MinDuration

\* t.Sub(time.Now()) + 1*time.Minute for t = time.Unix(n, 0) at clock t
SleepDuration(n, t) == AddDuration(Sub(n, t), Minute)

\* the clock when time.Sleep(d) called at t returns: at once for d <= 0
Sleep(d, t) == IF d > 0 THEN t + d ELSE t

\* resp.StatusCode/100 == 3
IsRedirect(st) == st \div 100 = 3

\* the 5xx test over the whole 500..599 range
Is5xxRange(st) == st \div 100 = 5

\* resp.StatusCode/500 == 5
Is5xx(st) == st \div 500 = 5

\* resp.Location(): absent header or unparseable value is an error.  The
\* values drawn are absolute URLs, which resolve to themselves.
LocationErr(lv) == lv = <<>> \/ Parse(lv).err

Location(lv) == String(Parse(lv))

\* whether this iteration's request reaches the wire
Sent(u) == ~Parse(u).err /\ Sendable(u)

Step(k, e, u, n) == [kind |-> k, err |-> e, urlstr |-> u, retry |-> n]

\* one iteration of the loop body: u is urlstr, n is retry, r the response;
\* kind is "return" (with err), "continue", "break" or "fatal"
Iteration(u, n, r) ==
  IF Parse(u).err THEN Step("return", "request", u, n)
  ELSE IF ~Sendable(u) \/ r.err = "net" THEN Step("return", "net", u, n)
  ELSE IF r.err = "body" THEN Step("return", "reading response body", u, n)
  ELSE IF IsNotFound(r.status) THEN Step("return", "resource not found", u, n)
  ELSE IF IsBackoff(r) THEN Step("continue", "", u, n + 1)
  ELSE IF IsRedirect(r.status) /\ LocationErr(r.location)
    THEN Step("return", "resolving redirect", u, n)
  ELSE LET u2 == IF IsRedirect(r.status) THEN Location(r.location) ELSE u IN
    IF Is5xx(r.status)
      THEN IF n = maxRetry THEN Step("fatal", "max retries exceeded", u2, n)
           ELSE Step("continue", "", u2, n + 1)
      ELSE Step("break", "", u2, n)

\* ------------------------------------------------------------ add and main
Outcome(nextpc, b, u, code, m, o) ==
  [pc |-> nextpc, bookmarks |-> b, urlstr |-> u, exitCode |-> code,
   msg |-> m, out |-> o]

\* usage: message on standard error, os.Exit(2)
usage(b) == Outcome("done", b, <<>>, 2, "usage", <<>>)

\* add without the duplicate check
addNoDuplicateCheck(raw, b) ==
  LET u == Parse(raw) IN
    IF u.err THEN Outcome("done", b, <<>>, 1, "parsing URL", <<>>)
    ELSE Outcome("fetch", b, String(u), -1, "", <<>>)

\* add keeping the argument as typed instead of u.String()
addRaw(raw, b) ==
  LET u == Parse(raw) IN
    IF u.err THEN Outcome("done", b, <<>>, 1, "parsing URL", <<>>)
    ELSE IF raw \in b THEN Outcome("done", b, raw, 1, "duplicate", <<>>)
    ELSE Outcome("fetch", b, raw, -1, "", <<>>)

\* add up to the call of savePage: parse, re-serialise, duplicate check
add(raw, b) ==
  LET u == Parse(raw) IN
    IF u.err THEN Outcome("done", b, <<>>, 1, "parsing URL", <<>>)
    ELSE IF String(u) \in b THEN Outcome("done", b, String(u), 1, "duplicate", <<>>)
    ELSE Outcome("fetch", b, String(u), -1, "", <<>>)

\* flag.Arg(0): the empty string when there is no positional argument
Arg0(a) == IF Len(a) = 0 THEN <<>> ELSE a[1]

\* main up to its first blocking call.  badFlag: the command line carries an
\* undefined flag, so flag.Parse calls usage before the store is read.
main(badFlag, l, a, f) ==
  IF badFlag THEN usage({})
  ELSE LET b == readBookmarkDB(f) IN
    IF l THEN IF Len(a) > 0 THEN usage(b)
              ELSE Outcome("done", b, <<>>, 0, "", list(b))
    ELSE IF Len(a) > 1 THEN usage(b)
    ELSE add(Arg0(a), b)

\* the URLs this invocation hands to add and add manages to normalise
Requests(badFlag, l, a) ==
  IF ~badFlag /\ ~l /\ Len(a) <= 1 /\ ~Parse(Arg0(a)).err
    THEN {String(Parse(Arg0(a)))} ELSE {}

\* ----------------------------------------------------------------- actions
\* process p is started with a command line drawn from BadFlags, Lists and
\* ArgLs and runs main to the point where it exits or is about to issue its
\* first request
Start(p, BadFlags, Lists, ArgLs) ==
  /\ pc[p] = "idle"
  /\ started < MaxInvocations
  /\ \E badFlag \in BadFlags, l \in Lists, a \in ArgLs :
       LET r == main(badFlag, l, a, file) IN
         /\ pc' = [pc EXCEPT ![p] = r.pc]
         /\ flagList' = [flagList EXCEPT ![p] = l]
         /\ flagBad' = [flagBad EXCEPT ![p] = badFlag]
         /\ args' = [args EXCEPT ![p] = a]
         /\ bookmarks' = [bookmarks EXCEPT ![p] = r.bookmarks]
         /\ urlstr' = [urlstr EXCEPT ![p] = r.urlstr]
         /\ target' = [target EXCEPT ![p] = r.urlstr]
         /\ exitCode' = [exitCode EXCEPT ![p] = r.exitCode]
         /\ msg' = [msg EXCEPT ![p] = r.msg]
         /\ out' = [out EXCEPT ![p] = r.out]
         /\ requested' = requested \cup Requests(badFlag, l, a)
  /\ retry' = [retry EXCEPT ![p] = 0]
  /\ hist' = [hist EXCEPT ![p] = <<>>]
  /\ gets' = [gets EXCEPT ![p] = 0]
  /\ before' = [before EXCEPT ![p] = file]
  /\ started' = started + 1
  /\ sentAt' = [sentAt EXCEPT ![p] = <<>>]
  /\ UNCHANGED <<file, file0, fetchFailed, now>>

\* process p is started with any command line
Main(p) == Start(p, BOOLEAN, BOOLEAN, ArgLists)

\* one invocation at a time
MainSeq(p) ==
  /\ \A q \in Procs \ {p} : pc[q] = "idle"
  /\ Main(p)

\* one iteration of the savePage loop, the response drawn from Rs; a
\* returned error or the fatal exit ends the process through log.Fatal, and
\* the backoff branch sleeps before it continues.  A request and its
\* response take no time; a sleep lasts as long as asked for.
Fetch(p, Rs) ==
  /\ pc[p] = "fetch"
  /\ LoopCond(retry[p])
  /\ \E r \in Rs, sent \in {Sent(target[p])} :
       \E s \in {Iteration(target[p], retry[p], r)} :
         /\ hist' = [hist EXCEPT ![p] = IF sent THEN Append(@, r) ELSE @]
         /\ gets' = [gets EXCEPT ![p] = IF sent THEN @ + 1 ELSE @]
         /\ target' = [target EXCEPT ![p] = s.urlstr]
         /\ retry' = [retry EXCEPT ![p] = s.retry]
         /\ pc' = [pc EXCEPT ![p] =
                     CASE s.kind = "continue" -> "fetch"
                       [] s.kind = "break" -> "append"
                       [] OTHER -> "done"]
         /\ exitCode' = [exitCode EXCEPT ![p] =
                     IF s.kind \in {"return", "fatal"} THEN 1 ELSE @]
         /\ msg' = [msg EXCEPT ![p] =
                     IF s.kind \in {"return", "fatal"} THEN s.err ELSE @]
         /\ fetchFailed' = (fetchFailed \/ s.kind \in {"return", "fatal"})
         /\ sentAt' = [sentAt EXCEPT ![p] = IF sent THEN Append(@, now) ELSE @]
         /\ now' = IF s.kind = "continue" /\ IsBackoff(r)
                     THEN Sleep(SleepDuration(Atoi(r.retryAfter), now), now)
                     ELSE now
  /\ UNCHANGED <<file, flagList, flagBad, args, bookmarks, urlstr, out, before, file0,
                 requested, started>>

\* one iteration of the savePage loop against any server
Attempt(p) == Fetch(p, Responses)

\* the loop condition fails: savePage returns nil
LoopExit(p) ==
  /\ pc[p] = "fetch"
  /\ ~LoopCond(retry[p])
  /\ pc' = [pc EXCEPT ![p] = "append"]
  /\ UNCHANGED <<file, flagList, flagBad, args, bookmarks, urlstr, target, retry, hist,
                 gets, exitCode, msg, out, before, file0, requested,
                 fetchFailed, started, now, sentAt>>

\* the append not waiting for savePage to return
AppendURLEarly(p) ==
  /\ pc[p] \in {"fetch", "append"}
  /\ file' = AppendLine(file, urlstr[p])
  /\ pc' = [pc EXCEPT ![p] = "done"]
  /\ exitCode' = [exitCode EXCEPT ![p] = 0]
  /\ UNCHANGED <<flagList, flagBad, args, bookmarks, urlstr, target, retry, hist, gets,
                 msg, out, before, file0, requested, fetchFailed, started,
                 now, sentAt>>

\* add after savePage returned nil: open, write the line, close, exit 0
AppendURL(p) ==
  /\ pc[p] = "append"
  /\ file' = AppendLine(file, urlstr[p])
  /\ pc' = [pc EXCEPT ![p] = "done"]
  /\ exitCode' = [exitCode EXCEPT ![p] = 0]
  /\ UNCHANGED <<flagList, flagBad, args, bookmarks, urlstr, target, retry, hist, gets,
                 msg, out, before, file0, requested, fetchFailed, started,
                 now, sentAt>>

\* the exited process is gone; its slot can run the next invocation
Reap(p) ==
  /\ pc[p] = "done"
  /\ pc' = [pc EXCEPT ![p] = "idle"]
  /\ flagList' = [flagList EXCEPT ![p] = FALSE]
  /\ flagBad' = [flagBad EXCEPT ![p] = FALSE]
  /\ args' = [args EXCEPT ![p] = <<>>]
  /\ bookmarks' = [bookmarks EXCEPT ![p] = {}]
  /\ urlstr' = [urlstr EXCEPT ![p] = <<>>]
  /\ target' = [target EXCEPT ![p] = <<>>]
  /\ retry' = [retry EXCEPT ![p] = 0]
  /\ hist' = [hist EXCEPT ![p] = <<>>]
  /\ gets' = [gets EXCEPT ![p] = 0]
  /\ exitCode' = [exitCode EXCEPT ![p] = -1]
  /\ msg' = [msg EXCEPT ![p] = ""]
  /\ out' = [out EXCEPT ![p] = <<>>]
  /\ before' = [before EXCEPT ![p] = file]
  /\ sentAt' = [sentAt EXCEPT ![p] = <<>>]
  /\ UNCHANGED <<file, file0, requested, fetchFailed, started, now>>

\* invocations run one after another; which slot runs them makes no
\* difference, so they all run in the first
Next ==
  \E p \in {q \in Procs : \A r \in Procs : q <= r} :
    \/ MainSeq(p)
    \/ Attempt(p)
    \/ LoopExit(p)
    \/ AppendURL(p)
    \/ Reap(p)

Spec == Init /\ [][Next]_vars

\* ------------------------------------------------ termination of savePage
\* sequential adds of one URL to a backing file that starts missing, against
\* any server
SaveArgLists == { << <<"http", ":", "/", "/", "x">> >> }

MainSave(p) ==
  /\ \A q \in Procs \ {p} : pc[q] = "idle"
  /\ Start(p, {FALSE}, {FALSE}, SaveArgLists)

NextSave ==
  \E p \in {q \in Procs : \A r \in Procs : q <= r} :
    \/ MainSave(p)
    \/ Attempt(p)
    \/ LoopExit(p)
    \/ AppendURL(p)
    \/ Reap(p)

InitSave == Init /\ file = NoFile

\* every request and every backoff sleep returns, so a process inside
\* savePage takes its next step
SpecFair ==
  /\ InitSave /\ [][NextSave]_vars
  /\ \A p \in Procs : WF_vars(Attempt(p)) /\ WF_vars(LoopExit(p))

\* ------------------------------------------------- concurrent invocations
\* command lines and servers of the concurrent runs: add of one URL typed in
\* two ways; the server answers 200, or 429 with a usable Retry-After
ConcArgLists == { << <<"http", ":", "/", "/", "x">> >>,
                  << <<"HTTP", ":", "/", "/", "x">> >> }

ConcResponses == { Resp("none", 200, <<>>, <<>>),
                   Resp("none", 429, <<"7">>, <<>>) }

MainConc(p) == Start(p, {FALSE}, {FALSE}, ConcArgLists)

AttemptConc(p) == Fetch(p, ConcResponses)

\* the backing file is not locked: any process may take the next step
NextConc ==
  \E p \in Procs :
    \/ MainConc(p)
    \/ AttemptConc(p)
    \/ LoopExit(p)
    \/ AppendURL(p)
    \/ Reap(p)

\* the concurrent runs start from a missing or empty backing file
InitConc == Init /\ file \in {NoFile, File(<<>>)}

SpecConc == InitConc /\ [][NextConc]_vars

\* ------------------------------------------------------ backoff and clock
\* sequential adds of one URL to a backing file that starts missing or
\* empty, started at one of two clock readings, against
\* a server that answers 200, or 429/503 with a Retry-After that is near,
\* far ahead, or not a number
ClockStarts == {0, 100}

ClockResponses == { Resp("none", 200, <<>>, <<>>),
                    Resp("none", 429, <<"7">>, <<>>),
                    Resp("none", 503, <<"7", "7">>, <<>>),
                    Resp("none", 429, <<"a">>, <<>>) }

AttemptClock(p) == Fetch(p, ClockResponses)

NextClock ==
  \E p \in {q \in Procs : \A r \in Procs : q <= r} :
    \/ MainSave(p)
    \/ AttemptClock(p)
    \/ LoopExit(p)
    \/ AppendURL(p)
    \/ Reap(p)

InitClock == \E t \in ClockStarts : InitAt(t) /\ file \in {NoFile, File(<<>>)}

SpecClock == InitClock /\ [][NextClock]_vars

TypeOK ==
  /\ file \in [exists : BOOLEAN, data : Seq(STRING)]
  /\ \A p \in Procs : pc[p] \in {"idle", "fetch", "append", "done"}
  /\ \A p \in Procs : retry[p] \in 0..maxRetry
  /\ now \in Nat
  /\ \A p \in Procs : sentAt[p] \in Seq(Nat) /\ Len(sentAt[p]) = gets[p]

\* ------------------------------------------------------------- properties
Quiescent == \A p \in Procs : pc[p] \in {"idle", "done"}

\* the invocation of p reached add with an argument that normalises
Adding(p) ==
  /\ pc[p] # "idle"
  /\ ~flagBad[p] /\ ~flagList[p] /\ Len(args[p]) <= 1
  /\ ~Parse(Arg0(args[p])).err

\* the normalised form of the argument of p
Normalized(p) == String(Parse(Arg0(args[p])))

Lines(o) == {o[i] : i \in DOMAIN o}

Ascending(o) == \A i, j \in DOMAIN o : i < j => StrLess(o[i], o[j])

HTTPX == <<"http", ":", "/", "/", "x">>
HTTPY == <<"http", ":", "/", "/", "y", "/", "%20">>

\* C1: from a missing or empty backing file, after sequential add
\* invocations whose fetches all succeeded, a fresh load followed by list
\* prints exactly the normalised forms of the URLs added, each once, in
\* ascending byte order.
C1_RoundTrip ==
  (file0 \in {NoFile, File(<<>>)} /\ ~fetchFailed /\ Quiescent) =>
    LET o == list(readBookmarkDB(file)) IN
      /\ Lines(o) = requested
      /\ Len(o) = Cardinality(requested)
      /\ Ascending(o)

\* two URLs added in descending order, both fetched, both stored
C1_Witness ==
  /\ file0 = NoFile /\ ~fetchFailed /\ Quiescent
  /\ requested = {HTTPX, HTTPY}
  /\ file = File(HTTPY \o <<NL>> \o HTTPX \o <<NL>>)

\* C2: an add whose normalised URL is a line of the backing file at load
\* time ends in the fatal "duplicate" error with a non-zero exit status and
\* leaves the backing file unchanged.
C2_DuplicateRejected ==
  \A p \in Procs :
    (Adding(p) /\ Normalized(p) \in readBookmarkDB(before[p])) =>
      /\ pc[p] = "done"
      /\ exitCode[p] # 0
      /\ msg[p] = "duplicate"
      /\ gets[p] = 0
      /\ file = before[p]

\* a duplicate that is only found after normalisation
C2_Witness ==
  \E p \in Procs :
    /\ pc[p] = "done" /\ msg[p] = "duplicate"
    /\ args[p] = << <<"HTTP", ":", "/", "/", "x">> >>
    /\ HTTPX \in readBookmarkDB(before[p])

\* a response on which savePage returns an error
IsSaveError(r) ==
  \/ r.err \in {"net", "body"}
  \/ r.status = 404
  \/ r.status \in 300..399 /\ (r.location = <<>> \/ Parse(r.location).err)

\* C3: when savePage returns an error (404 on any attempt, network error,
\* body-read error, unresolvable redirect, malformed or unsendable request)
\* the invocation exits non-zero with the backing file unchanged, and the
\* failing response is the last one: nothing is retried after it.
C3_FetchErrorIsFatal ==
  \A p \in Procs :
    /\ \A i \in DOMAIN hist[p] :
         IsSaveError(hist[p][i]) =>
           /\ i = Len(hist[p]) /\ gets[p] = i
           /\ pc[p] = "done" /\ exitCode[p] # 0 /\ file = before[p]
    /\ (Adding(p) /\ Normalized(p) \notin readBookmarkDB(before[p])
          /\ ~Sendable(Normalized(p))) =>
           /\ gets[p] = 0
           /\ pc[p] # "append"
           /\ pc[p] = "done" => (exitCode[p] # 0 /\ file = before[p])

\* a 404 on the third attempt, after two backoff retries
C3_Witness ==
  \E p \in Procs :
    /\ pc[p] = "done" /\ Len(hist[p]) = 3 /\ retry[p] = 2
    /\ hist[p][3].status = 404
    /\ exitCode[p] = 1 /\ file = before[p]

\* a Retry-After value that is a positive decimal integer
PositiveInteger(h) ==
  /\ h # <<>>
  /\ \A i \in DOMAIN h : h[i] \in {"0", "5", "7"}
  /\ \E i \in DOMAIN h : h[i] # "0"

\* a 429 or 503 carrying a usable Retry-After
BackoffResponse(r) ==
  r.err = "none" /\ r.status \in {429, 503} /\ PositiveInteger(r.retryAfter)

\* savePage of p is over: it returned, or the process exited inside it
SavePageOver(p) == hist[p] # <<>> /\ pc[p] \in {"append", "done"}

\* C4: against a server that keeps answering 429 or 503 with a positive
\* Retry-After, the process terminates fatally and the URL is not appended.
C4_BackoffExhaustedIsFatal ==
  \A p \in Procs :
    (SavePageOver(p) /\ \A i \in DOMAIN hist[p] : BackoffResponse(hist[p][i])) =>
      /\ pc[p] = "done"
      /\ exitCode[p] # 0
      /\ file = before[p]

\* a response the retry policy is meant to retry
RetryableResponse(r) == BackoffResponse(r) \/ (r.err = "none" /\ r.status = 500)

\* C5: against a server that answers every request with a retryable
\* response, savePage issues the initial GET plus maxRetry further GETs.
C5_RetryBudget ==
  \A p \in Procs :
    (SavePageOver(p) /\ \A i \in DOMAIN hist[p] : RetryableResponse(hist[p][i])) =>
      gets[p] = 1 + maxRetry

\* C6: a 500 takes the 5xx branch: it is retried while retries remain and
\* is fatal afterwards, so a URL whose server always answers 500 is never
\* appended.
C6_Status500NeverAppended ==
  \A p \in Procs :
    (hist[p] # <<>> /\ \A i \in DOMAIN hist[p] :
                         hist[p][i].err = "none" /\ hist[p][i].status = 500) =>
      /\ pc[p] # "append"
      /\ pc[p] = "done" => (exitCode[p] # 0 /\ file = before[p])

\* C7: after a 3xx response with a resolvable Location savePage is back at
\* the head of its loop, about to issue a GET to the resolved URL, with the
\* retry count it had before.
C7_RedirectContinues ==
  \A p \in Procs :
    LET n == Len(hist[p]) IN
      (n > 0 /\ hist[p][n].err = "none" /\ hist[p][n].status \in 300..399
         /\ ~IsSaveError(hist[p][n])) =>
        /\ pc[p] = "fetch"
        /\ target[p] = String(Parse(hist[p][n].location))
        /\ retry[p] = n - 1

\* a response outside every branch the policy handles
UnhandledResponse(r) ==
  /\ r.err = "none"
  /\ r.status # 404 /\ r.status \notin 300..399 /\ r.status # 500
  /\ ~BackoffResponse(r)

\* C8: a response that is not 404, not 3xx, not 500 and not a 429/503 with a
\* positive Retry-After ends savePage with nil on that attempt, without
\* consuming a retry slot, and add then appends the URL.
C8_DefaultSuccess ==
  \A p \in Procs :
    \A i \in DOMAIN hist[p] :
      UnhandledResponse(hist[p][i]) =>
        /\ i = Len(hist[p]) /\ gets[p] = i /\ retry[p] = i - 1
        /\ pc[p] \in {"append", "done"}
        /\ pc[p] = "done" =>
             /\ exitCode[p] = 0
             /\ file = File(before[p].data \o urlstr[p] \o <<NL>>)

\* a 429 whose Retry-After is negative counts as success
C8_Witness ==
  \E p \in Procs :
    /\ pc[p] = "done" /\ exitCode[p] = 0
    /\ Len(hist[p]) = 1
    /\ hist[p][1].status = 429 /\ hist[p][1].retryAfter = <<"-", "5">>
    /\ file # before[p]

\* C9: an add whose first fetch attempt receives 200 exits 0 with the
\* backing file extended by exactly one line, the normalised input URL; and
\* whatever was observed during the fetch (redirects included), the line a
\* successful add stores is the normalised input URL.
C9_AppendsNormalizedInput ==
  \A p \in Procs :
    /\ (hist[p] # <<>> /\ hist[p][1].err = "none" /\ hist[p][1].status = 200) =>
         /\ Len(hist[p]) = 1 /\ gets[p] = 1
         /\ pc[p] \in {"append", "done"}
         /\ pc[p] = "done" => exitCode[p] = 0
    /\ (pc[p] = "done" /\ exitCode[p] = 0 /\ ~flagList[p]) =>
         /\ Adding(p)
         /\ file = File(before[p].data \o Normalized(p) \o <<NL>>)

\* HTTP://x fetched with 200 and stored as http://x
C9_Witness ==
  \E p \in Procs :
    /\ pc[p] = "done" /\ exitCode[p] = 0
    /\ args[p] = << <<"HTTP", ":", "/", "/", "x">> >>
    /\ hist[p] = << Resp("none", 200, <<>>, <<>>) >>
    /\ file = File(before[p].data \o HTTPX \o <<NL>>)

\* C10: -list without positional arguments lists, one positional argument
\* without -list adds, and every other command line ends with the usage
\* message and exit status 2, no request issued, backing file unchanged.
C10_ArgumentDispatch ==
  \A p \in Procs :
    pc[p] # "idle" =>
      IF ~flagBad[p] /\ flagList[p] /\ Len(args[p]) = 0
        THEN pc[p] = "done" /\ exitCode[p] = 0 /\ msg[p] = ""
             /\ out[p] = list(readBookmarkDB(before[p]))
      ELSE IF ~flagBad[p] /\ ~flagList[p] /\ Len(args[p]) = 1
        THEN msg[p] # "usage" /\ exitCode[p] # 2
      ELSE /\ pc[p] = "done" /\ exitCode[p] = 2 /\ msg[p] = "usage"
           /\ gets[p] = 0 /\ file = before[p]

\* how many lines of the backing file hold exactly u
Occurrences(f, u) ==
  LET lines == SplitAfter(f.data) IN
    Cardinality({i \in DOMAIN lines : TrimSuffix(lines[i]) = u})

\* how many lines of a listing are u
Printed(o, u) == Cardinality({i \in DOMAIN o : o[i] = u})

\* C11: when two concurrent invocations both add the same URL successfully,
\* each passed the duplicate check against its own startup snapshot, the
\* backing file holds the URL on at least two lines, and a subsequent load
\* still has it once.
C11_ConcurrentDuplicate ==
  \A p, q \in Procs :
    (p # q /\ pc[p] = "done" /\ pc[q] = "done"
       /\ exitCode[p] = 0 /\ exitCode[q] = 0 /\ urlstr[p] = urlstr[q]) =>
      /\ urlstr[p] \notin bookmarks[p] /\ urlstr[q] \notin bookmarks[q]
      /\ Occurrences(file, urlstr[p]) >= 2
      /\ urlstr[p] \in readBookmarkDB(file)
      /\ Printed(list(readBookmarkDB(file)), urlstr[p]) = 1

\* both invocations appended http://x
C11_Witness ==
  /\ pc[1] = "done" /\ pc[2] = "done"
  /\ exitCode[1] = 0 /\ exitCode[2] = 0
  /\ urlstr[1] = HTTPX /\ urlstr[2] = HTTPX
  /\ args[1] # args[2]
  /\ file = File(HTTPX \o <<NL>> \o HTTPX \o <<NL>>)

IsPrefix(s, t) == Len(s) <= Len(t) /\ SubSeq(t, 1, Len(s)) = s

\* g is f, or f followed by exactly one newline-terminated line
AtMostOneLineMore(f, g) ==
  \/ g = f
  \/ /\ g.exists /\ IsPrefix(f.data, g.data)
     /\ Len(g.data) > Len(f.data)
     /\ \A i \in (Len(f.data) + 1)..Len(g.data) : (g.data[i] = NL) <=> (i = Len(g.data))

\* the content is empty or ends with a newline
Terminated(f) == f.data = <<>> \/ f.data[Len(f.data)] = NL

AppendOnlyBytes ==
  /\ IsPrefix(file0.data, file.data)
  /\ file0.exists => file.exists
  /\ \A p \in Procs : pc[p] # "idle" => AtMostOneLineMore(before[p], file)

\* C12 as stated: the file after an invocation has the file before it as a
\* prefix, an invocation appends at most one line, and no entry present at
\* one load is absent from a later load.
C12_EntriesNeverLost ==
  /\ AppendOnlyBytes
  /\ readBookmarkDB(file0) \subseteq readBookmarkDB(file)
  /\ \A p \in Procs :
       pc[p] # "idle" => readBookmarkDB(before[p]) \subseteq readBookmarkDB(file)

\* C12 amended: the same, the entries being kept when the content loaded is
\* empty or ends with a newline.
C12_AppendOnly ==
  /\ AppendOnlyBytes
  /\ Terminated(file0) => readBookmarkDB(file0) \subseteq readBookmarkDB(file)
  /\ \A p \in Procs :
       (pc[p] # "idle" /\ Terminated(before[p])) =>
         readBookmarkDB(before[p]) \subseteq readBookmarkDB(file)

\* a second URL appended to a file already holding one
C12_Witness ==
  \E p \in Procs :
    /\ pc[p] = "done" /\ exitCode[p] = 0
    /\ before[p] = File(HTTPX \o <<NL>>)
    /\ file = File(HTTPX \o <<NL>> \o HTTPY \o <<NL>>)

\* the non-empty lines of a file: the maximal newline-free stretches
NonEmptyLines(f) ==
  LET d == f.data IN
    {SubSeq(d, i, j) : <<i, j>> \in
       {ij \in (DOMAIN d) \X (DOMAIN d) :
          /\ ij[1] <= ij[2]
          /\ \A k \in ij[1]..ij[2] : d[k] # NL
          /\ ij[1] = 1 \/ d[ij[1] - 1] = NL
          /\ ij[2] = Len(d) \/ d[ij[2] + 1] = NL}}

\* C13: the key set readBookmarkDB builds is exactly the set of non-empty
\* lines of the backing file (empty lines skipped, an unterminated final line
\* counted, repeated lines one key); a missing file gives an empty store
\* without error, and list on an empty store prints nothing.
C13_LoadIsNonEmptyLines ==
  \A p \in Procs :
    (pc[p] # "idle" /\ ~flagBad[p]) =>
      /\ bookmarks[p] = NonEmptyLines(before[p])
      /\ ~before[p].exists => bookmarks[p] = {}
      /\ (flagList[p] /\ Len(args[p]) = 0 /\ NonEmptyLines(before[p]) = {}) =>
           (pc[p] = "done" /\ exitCode[p] = 0 /\ msg[p] = "" /\ out[p] = <<>>)

\* a file with empty lines, a repeated line and an unterminated last line
C13_Witness ==
  \E p \in Procs :
    /\ pc[p] # "idle" /\ ~flagBad[p]
    /\ before[p] = File(<<NL, "y", NL, NL, "y", NL, "x">>)
    /\ bookmarks[p] = {<<"x">>, <<"y">>}

\* C14: every call of savePage ends after at most maxRetry requests, whatever
\* the server answers: the number of requests never exceeds maxRetry, and a
\* process inside the loop leaves it.
C14_SavePageTerminates ==
  /\ [](\A p \in Procs : gets[p] <= maxRetry /\ Len(hist[p]) <= maxRetry)
  /\ \A p \in Procs : (pc[p] = "fetch") ~> (pc[p] # "fetch")

\* three requests, each answered with a retryable response, and the call over
C14_Witness ==
  \E p \in Procs :
    /\ gets[p] = maxRetry /\ pc[p] = "done" /\ exitCode[p] = 0
    /\ \A i \in DOMAIN hist[p] : BackoffResponse(hist[p][i])

\* process p executes the body of the savePage loop in this step
InLoopBody(p) ==
  pc[p] = "fetch" /\ (hist'[p] # hist[p] \/ pc'[p] = "done")

\* C15: inside the body of the savePage loop 0 <= retry < maxRetry; retry
\* never decreases during a call and changes only by +1 on a continue; the
\* guard retry == maxRetry is never true there and the fatal exit
\* "max retries exceeded" is never taken.
C15_RetryBelowMax ==
  /\ [][\A p \in Procs :
          /\ InLoopBody(p) =>
               /\ 0 <= retry[p] /\ retry[p] < maxRetry /\ retry[p] # maxRetry
               /\ retry'[p] \in {retry[p], retry[p] + 1}
               /\ retry'[p] = retry[p] + 1 => pc'[p] = "fetch"
          /\ (pc[p] \in {"fetch", "append"} /\ ~InLoopBody(p)) =>
               retry'[p] = retry[p]]_vars
  /\ [](\A p \in Procs : msg[p] # "max retries exceeded")

\* the loop left with retry = maxRetry and no fatal exit
C15_Witness ==
  \E p \in Procs :
    /\ pc[p] = "append" /\ retry[p] = maxRetry /\ msg[p] = ""
    /\ Len(hist[p]) = maxRetry

\* the backoff responses among the responses p received
Backoffs(p) == {i \in DOMAIN hist[p] : BackoffResponse(hist[p][i])}

\* C16: a 429 or 503 whose Retry-After is a positive integer n consumes
\* exactly one retry slot, and the next attempt is not issued before Unix
\* time n + 60, whatever the size of n; when n + 60 is already past, the
\* next attempt follows at once.
C16_BackoffSleepsUntil ==
  \A p \in Procs :
    /\ retry[p] = Cardinality(Backoffs(p))
    /\ \A i \in Backoffs(p) :
         i + 1 \in DOMAIN sentAt[p] =>
           LET n == Atoi(hist[p][i].retryAfter) IN
             /\ sentAt[p][i + 1] >= n + 60
             /\ n + 60 <= sentAt[p][i] => sentAt[p][i + 1] = sentAt[p][i]

\* the invocation of p reached add
AddInvocation(p) ==
  pc[p] # "idle" /\ ~flagBad[p] /\ ~flagList[p] /\ Len(args[p]) <= 1

\* the responses p received let savePage return nil: none was an error, a
\* 404 or an unresolvable redirect, and the last one was not a backoff
\* unless the retries ran out
ReturnedNil(p) ==
  /\ hist[p] # <<>>
  /\ \A i \in DOMAIN hist[p] :
       /\ hist[p][i].err = "none"
       /\ hist[p][i].status # 404
       /\ hist[p][i].status \in 300..399 => ~LocationErr(hist[p][i].location)
  /\ \/ Cardinality(Backoffs(p)) = maxRetry
     \/ ~BackoffResponse(hist[p][Len(hist[p])])

\* C17: within one add invocation the steps are ordered parse/normalize,
\* duplicate check, fetch, append: no request is issued for a URL that fails
\* to parse or is already in the store, requests are issued only for the
\* normalised, non-duplicate URL while the file is still as loaded, and the
\* file is appended to only after savePage returned nil, not before or
\* during the fetch.
C17_StepsOrdered ==
  /\ [](\A p \in Procs :
          /\ (AddInvocation(p) /\
                (Parse(Arg0(args[p])).err
                   \/ Normalized(p) \in readBookmarkDB(before[p]))) =>
               (gets[p] = 0 /\ pc[p] = "done" /\ exitCode[p] = 1)
          /\ pc[p] = "fetch" =>
               /\ AddInvocation(p) /\ ~Parse(Arg0(args[p])).err
               /\ urlstr[p] = Normalized(p)
               /\ urlstr[p] \notin readBookmarkDB(before[p])
               /\ file = before[p])
  /\ [][/\ \A p \in Procs : gets'[p] > gets[p] => pc[p] = "fetch"
        /\ file' # file =>
             \E p \in Procs :
               /\ pc[p] = "append" /\ pc'[p] = "done"
               /\ ReturnedNil(p)
               /\ hist'[p] = hist[p] /\ gets'[p] = gets[p]
               /\ file' = AppendLine(file, urlstr[p])]_vars

\* an add that fetched and then appended
C17_Witness ==
  \E p \in Procs :
    /\ AddInvocation(p) /\ pc[p] = "done" /\ exitCode[p] = 0
    /\ gets[p] >= 1 /\ ReturnedNil(p)
    /\ file # before[p] /\ file = AppendLine(before[p], urlstr[p])

\* the invocation of p ran list
ListInvocation(p) ==
  pc[p] # "idle" /\ ~flagBad[p] /\ flagList[p] /\ Len(args[p]) = 0

\* files holding the lines x and y in other orders and multiplicities
Rearranged ==
  { File(<<"x", NL, "y", NL>>),
    File(<<"y", NL, "x", NL>>),
    File(<<"y", NL, "x", NL, "y">>),
    File(<<NL, "y", NL, NL, "y", NL, "x">>),
    File(<<"x", NL, "x", NL>>),
    File(<<NL, NL>>) }

\* C18: a list invocation is read-only: it leaves the backing file as it
\* was, issues no request, and what it prints is determined by the set of
\* lines of the file at load time alone: that set in ascending order, the
\* same for any file holding the same lines in another order or number.
C18_ListReadOnly ==
  \A p \in Procs :
    ListInvocation(p) =>
      /\ pc[p] = "done" /\ exitCode[p] = 0
      /\ file = before[p]
      /\ gets[p] = 0 /\ hist[p] = <<>> /\ sentAt[p] = <<>>
      /\ Lines(out[p]) = NonEmptyLines(before[p])
      /\ Ascending(out[p])
      /\ \A g \in Rearranged :
           NonEmptyLines(g) = NonEmptyLines(before[p]) =>
             list(readBookmarkDB(g)) = out[p]

\* list on a file with a repeated line and its lines out of order
C18_Witness ==
  \E p \in Procs :
    /\ ListInvocation(p)
    /\ before[p] = File(<<NL, "y", NL, NL, "y", NL, "x">>)
    /\ out[p] = << <<"x">>, <<"y">> >>
    /\ \E g \in Rearranged \ {before[p]} :
         NonEmptyLines(g) = NonEmptyLines(before[p])

====
